---------------------------- MODULE Spec2Model ----------------------------
(***************************************************************************)
(* A model of EELSurrogate.cu: the Kriging surrogate engine.               *)
(*                                                                         *)
(* Host operations are sequences of CUDA runtime calls; each call is one   *)
(* step of the model and may fail.  Device kernels are modelled by what    *)
(* one thread does at its flattened index.  The Gauss-Jordan kernels       *)
(* (resetBuffers, normalizeRows, pivotDown, pivotUp) run one thread per    *)
(* step (see Schedule and ScheduleRows for the orders explored); the       *)
(* elementwise kernels, whose threads touch only their own output element, *)
(* run as one step.  The busy-wait of normalizeRows and pivotUp reads a     *)
(* flag that another thread writes with no synchronisation: the outcomes   *)
(* of that race are steps of invertMatrix called on its own (NextInvert);  *)
(* inside metamodelSetup the launches take the outcome in which the loop   *)
(* waits as written.                                                       *)
(*                                                                         *)
(* A double is modelled as an exact rational <<numerator, denominator>>.   *)
(* Freshly allocated device memory and memory read past the end of a       *)
(* buffer hold arbitrary values, drawn from a small set of patterns.       *)
(***************************************************************************)
EXTENDS Integers, Sequences, FiniteSets, TLC

VARIABLES
    driver,     \* the call being modelled: [name, dimension, theta, variance, a, bufs]
    mpc,        \* position of the caller (metamodelSetup or a single-operation caller)
    mstatus,    \* the caller's cudaStatus
    host,       \* host buffers: name -> [i \in 0..n-1 |-> value]
    hostSt,     \* host buffers: name -> "caller" | "none" | "malloc" | "freed"
    retval,     \* outputValue of metamodelSetup
    pc,         \* position inside the running host operation (0: none running)
    status,     \* cudaStatus of the running host operation
    dev,        \* device pointers of the running host operation
    launchErr,  \* what cudaGetLastError will report
    running,    \* a Gauss-Jordan kernel launch is in progress
    ran,        \* threads of the launch in progress that have returned
    led,        \* the leader thread of the launch has published its scratch values
    wcount,     \* per output index, how many threads of the last launch wrote it
    spinning    \* threads of the launch in progress that loop on a stale ready flag

vars == <<driver, mpc, mstatus, host, hostSt, retval, pc, status, dev,
          launchErr, running, ran, led, wcount, spinning>>

---------------------------------------------------------------------------
(* Bounds of the model.                                                    *)

\* largest dimension of the single-operation callers
MaxDim == 3
\* largest dimension at which invertMatrix is run on its own
MaxInvDim == 2
\* matrix entries of the arbitrary matrices are drawn from 0..MaxEntry
MaxEntry == 2
\* patterns of uninitialised memory are numbered 0..MaxJunk
MaxJunk == 1

---------------------------------------------------------------------------
(* Exact rational arithmetic standing for double arithmetic.               *)

Abs(x) == IF x < 0 THEN -x ELSE x

RECURSIVE GCD(_, _)
GCD(x, y) == IF y = 0 THEN x ELSE GCD(y, x % y)

Rat(n, d) ==
    LET s == IF d < 0 THEN -1 ELSE 1
        g == GCD(Abs(n), Abs(d))
    IN  <<(s * n) \div g, (s * d) \div g>>

R(n) == <<n, 1>>
Zero == R(0)
One == R(1)

RAdd(x, y) == Rat(x[1] * y[2] + y[1] * x[2], x[2] * y[2])
RSub(x, y) == Rat(x[1] * y[2] - y[1] * x[2], x[2] * y[2])
RMul(x, y) == Rat(x[1] * y[1], x[2] * y[2])
RDiv(x, y) == Rat(x[1] * y[2], x[2] * y[1])
RNeg(x) == <<-x[1], x[2]>>
RAbs(x) == <<Abs(x[1]), x[2]>>

RECURSIVE Pow2(_)
Pow2(k) == IF k = 0 THEN 1 ELSE 2 * Pow2(k - 1)

\* std::exp at an integer multiple of ln 2: theta is counted in units of
\* ln 2, which keeps exp(-theta * distance) an exact rational.
RExp(x) == IF x[1] <= 0 THEN Rat(1, Pow2(-x[1])) ELSE R(Pow2(x[1]))

\* The arbitrary value found at index i of memory that was never written.
JunkVal(seed, i) == R((seed * (i + 1)) % 3)
JunkSeeds == 0..MaxJunk

Buf(n, seed) == [i \in 0..(n - 1) |-> JunkVal(seed, i)]
Size(f) == Cardinality(DOMAIN f)

\* A read of buffer f at index i; past the end it finds an arbitrary value.
Rd(f, i, seed) == IF i \in DOMAIN f THEN f[i] ELSE JunkVal(seed, i)

\* A write of buffer f at index i (a write past the end is not modelled: the
\* launches of the host operations make none, see the thread sets below).
Wr(f, i, v) == IF i \in DOMAIN f THEN [f EXCEPT ![i] = v] ELSE f

\* The flattened indices of a launch <<<blocks, threadsPerBlock>>>: the grid
\* is one-dimensional, so blockIdx.y = threadIdx.y = 0 and j = 0.
Threads(blocks, threadsPerBlock) == 0..(blocks * threadsPerBlock - 1)

---------------------------------------------------------------------------
(* The device kernels: what the thread with flattened index `index` does.  *)

calcDistanceBetMats(outMat, inMatOne, inMatTwo, dimension, index, seed) ==
    LET d == RAbs(RSub(Rd(inMatOne, index, seed), Rd(inMatTwo, index, seed)))
    IN  Wr(outMat, index, RMul(d, d))

calcDistanceBetMatVec(outMat, inMat, inVec, dimension, index, seed) ==
    LET d == RAbs(RSub(Rd(inMat, index, seed), Rd(inVec, index, seed)))
    IN  Wr(outMat, index, RMul(d, d))

calcGaussCorr(outMat, inMat, dimension, variance, a, theta, index, seed) ==
    LET negOne == R(-1)
    IN  Wr(outMat, index,
           RMul(RSub(variance, a),
                RExp(RMul(RMul(negOne, theta), Rd(inMat, index, seed)))))

\* a slip in the diagonal test: index % dimension
createIdentMatRowZero(matrix, dimension, index) ==
    IF (index % dimension) = 0
    THEN Wr(matrix, index, One)
    ELSE Wr(matrix, index, Zero)

createIdentMat(matrix, dimension, index) ==
    IF (index % (dimension + 1)) = 0
    THEN Wr(matrix, index, One)
    ELSE Wr(matrix, index, Zero)

\* (int)sqrt((float)n)
ISqrt(n) == CHOOSE k \in 0..n : k * k <= n /\ n < (k + 1) * (k + 1)

\* a slip in the corner test: the corner is treated as part of the bottom row
extendMatNoCorner(outMat, inMat, dimension, index, seed) ==
    IF ((index + 1) % dimension) = 0
    THEN Wr(outMat, index, One)
    ELSE IF index >= dimension * (dimension - 1)
         THEN Wr(outMat, index, One)
         ELSE Wr(outMat, index, Rd(inMat, index, seed))

extendMat(outMat, inMat, dimension, index, seed) ==
    IF ((index + 1) % dimension) = 0
    THEN IF ISqrt(index + 1) = dimension
         THEN Wr(outMat, index, Zero)
         ELSE Wr(outMat, index, One)
    ELSE IF index >= dimension * (dimension - 1)
         THEN Wr(outMat, index, One)
         ELSE Wr(outMat, index, Rd(inMat, index, seed))

\* output[index] after the first k rounds of the accumulation loop
RECURSIVE multiplyAcc(_, _, _, _, _, _, _)
multiplyAcc(output, firInput, secInput, dimension, index, seed, k) ==
    IF k = 0
    THEN Rd(output, index, seed)
    ELSE LET row == index % dimension
             col == index \div dimension
         IN  RAdd(multiplyAcc(output, firInput, secInput, dimension, index, seed, k - 1),
                  RMul(Rd(firInput, row + (k - 1) * dimension, seed),
                       Rd(secInput, (k - 1) + col * dimension, seed)))

\* the dot product accumulated in the first cell of the thread's row, the
\* cell every thread of that row would share
multiplyMatrixIntoRow(output, firInput, secInput, dimension, index, seed) ==
    Wr(output, index % dimension,
       multiplyAcc(output, firInput, secInput, dimension, index, seed, dimension))

multiplyMatrix(output, firInput, secInput, dimension, index, seed) ==
    Wr(output, index,
       multiplyAcc(output, firInput, secInput, dimension, index, seed, dimension))

resetBuffers(vals, flag, dimension, index) ==
    [flag |-> IF index = 0 THEN FALSE ELSE flag,
     vals |-> IF index < 2 * dimension THEN Wr(vals, index, Zero) ELSE vals]

\* the thread that satisfies index == target * (dimension + 1)
IsLeader(dimension, target, index) == index = target * (dimension + 1)

\* the leader's loop of normalizeRows: for (k = index % dimension; k < dimension; k++)
normalizeRowsCopy(inMat, firstVals, dimension, targetCol, index) ==
    [k \in DOMAIN firstVals |->
        IF k >= (index % dimension) /\ k < dimension
        THEN inMat[index - targetCol + k]
        ELSE firstVals[k]]

\* the part of normalizeRows after the busy-wait loop
normalizeRows(idenMat, inMat, firstVals, dimension, targetCol, index) ==
    LET normVal == firstVals[index % dimension]
    IN  IF normVal # Zero /\ index >= (targetCol % dimension)
        THEN [idenMat |-> Wr(idenMat, index, RDiv(idenMat[index], normVal)),
              inMat |-> Wr(inMat, index, RDiv(inMat[index], normVal))]
        ELSE [idenMat |-> idenMat, inMat |-> inMat]

\* pivotDown without its test of the leading element
pivotDownUnguarded(idenMat, inMat, dimension, targetRow, index) ==
    IF (index % dimension) > targetRow
    THEN LET temp == index - ((index % dimension) - targetRow)
         IN  [idenMat |-> Wr(idenMat, index, RSub(idenMat[index], idenMat[temp])),
              inMat |-> Wr(inMat, index, RSub(inMat[index], inMat[temp]))]
    ELSE [idenMat |-> idenMat, inMat |-> inMat]

pivotDown(idenMat, inMat, dimension, targetRow, index) ==
    IF (index % dimension) > targetRow
       /\ inMat[(index % dimension) + targetRow * dimension] # Zero
    THEN LET temp == index - ((index % dimension) - targetRow)
         IN  [idenMat |-> Wr(idenMat, index, RSub(idenMat[index], idenMat[temp])),
              inMat |-> Wr(inMat, index, RSub(inMat[index], inMat[temp]))]
    ELSE [idenMat |-> idenMat, inMat |-> inMat]

\* the leader's loop of pivotUp: for (k = index % dimension; k >= 0; k--)
pivotUpCopy(inMat, lastVals, dimension, targetRow, index) ==
    [m \in DOMAIN lastVals |->
        IF \E k \in 0..(index % dimension) : ((index - k) % dimension) = m
        THEN LET k == CHOOSE k \in 0..(index % dimension) : ((index - k) % dimension) = m
             IN  inMat[index - k]
        ELSE lastVals[m]]

\* the part of pivotUp after the busy-wait loop
pivotUp(idenMat, inMat, lastVals, dimension, targetRow, index) ==
    IF (index % dimension) < targetRow
    THEN LET src == index + targetRow - (index % dimension)
             mul == lastVals[index % dimension]
         IN  [idenMat |-> Wr(idenMat, index, RSub(idenMat[index], RMul(mul, idenMat[src]))),
              inMat |-> Wr(inMat, index, RSub(inMat[index], RMul(mul, inMat[src])))]
    ELSE [idenMat |-> idenMat, inMat |-> inMat]

---------------------------------------------------------------------------
(* The host operations, as the sequence of steps each one takes.  Every    *)
(* CUDA runtime call of `body` is followed in the source by                *)
(*   if (cudaStatus != cudaSuccess) goto <Error label>;                    *)
(* and `cleanup` is the code at that label.                                *)

St(k, x, y, n, args, b, t, p) ==
    [k |-> k, x |-> x, y |-> y, n |-> n, args |-> args, b |-> b, t |-> t, p |-> p]

\* cudaMalloc((void**)&v, n * sizeof(double))
Malloc(v, n) == St("cudaMalloc", v, "", n, <<>>, 0, 0, 0)
\* cudaMemcpy(v, h, n * sizeof(double), cudaMemcpyHostToDevice)
H2D(v, h, n) == St("cudaMemcpyHostToDevice", v, h, n, <<>>, 0, 0, 0)
\* cudaMemcpy(h, v, n * sizeof(double), cudaMemcpyDeviceToHost)
D2H(h, v, n) == St("cudaMemcpyDeviceToHost", v, h, n, <<>>, 0, 0, 0)
\* kernel <<<b, t>>> (args, dimension)
Launch(kernel, args, b, t, dimension) == St("launch", kernel, "", dimension, args, b, t, 0)
\* kernel <<<dimension, dimension>>> (..., dimension, p) of the Gauss-Jordan engine
LaunchGJ(kernel, dimension, p) ==
    St("launchGJ", kernel, "", dimension, <<>>, dimension, dimension, p)
GetLastError == St("cudaGetLastError", "", "", 0, <<>>, 0, 0, 0)
Synchronize == St("cudaDeviceSynchronize", "", "", 0, <<>>, 0, 0, 0)
Free(v) == St("cudaFree", v, "", 0, <<>>, 0, 0, 0)
HostStep(k) == St(k, "", "", 0, <<>>, 0, 0, 0)

calculateGaussianCorrelation(dimension) ==
    LET matrixMemoryAllocationSize == dimension * dimension
    IN  [formals |-> <<"outputMatrix", "inMatrix">>,
         body |-> <<
            Malloc("deviceOutMat", matrixMemoryAllocationSize),
            Malloc("deviceInMat", matrixMemoryAllocationSize),
            H2D("deviceInMat", "inMatrix", matrixMemoryAllocationSize),
            H2D("deviceOutMat", "outputMatrix", matrixMemoryAllocationSize),
            Launch("calcGaussCorr", <<"deviceOutMat", "deviceInMat">>,
                   dimension, dimension, dimension),
            GetLastError,
            Synchronize,
            D2H("outputMatrix", "deviceOutMat", matrixMemoryAllocationSize) >>,
         cleanup |-> << Free("deviceOutMat"), Free("deviceInMat") >>]

calculateDistanceBetweenMatrices(dimension) ==
    LET matrixMemoryAllocationSize == dimension * dimension
    IN  [formals |-> <<"outputMatrix", "inMatrixOne", "inMatrixTwo">>,
         body |-> <<
            Malloc("deviceOutMat", matrixMemoryAllocationSize),
            Malloc("deviceInMatOne", matrixMemoryAllocationSize),
            Malloc("deviceInMatTwo", matrixMemoryAllocationSize),
            H2D("deviceInMatOne", "inMatrixOne", matrixMemoryAllocationSize),
            H2D("deviceInMatTwo", "inMatrixTwo", matrixMemoryAllocationSize),
            Launch("calcDistanceBetMats",
                   <<"deviceOutMat", "deviceInMatOne", "deviceInMatTwo">>,
                   dimension, dimension, dimension),
            GetLastError,
            Synchronize,
            D2H("outputMatrix", "deviceOutMat", matrixMemoryAllocationSize) >>,
         cleanup |-> << Free("deviceOutMat"), Free("deviceInMatOne"),
                        Free("deviceInMatTwo") >>]

calculateDistanceBetweenMatrixVector(dimension) ==
    LET matrixMemoryAllocationSize == dimension * dimension
    IN  [formals |-> <<"outputMatrix", "inMatrix", "inVector">>,
         body |-> <<
            Malloc("deviceOutMat", matrixMemoryAllocationSize),
            Malloc("deviceInMat", matrixMemoryAllocationSize),
            Malloc("deviceInVec", matrixMemoryAllocationSize),
            H2D("deviceInMat", "inMatrix", matrixMemoryAllocationSize),
            H2D("deviceInVec", "inVector", matrixMemoryAllocationSize),
            Launch("calcDistanceBetMatVec",
                   <<"deviceOutMat", "deviceInMat", "deviceInVec">>,
                   dimension, 1, dimension),
            GetLastError,
            Synchronize,
            D2H("outputMatrix", "deviceOutMat", matrixMemoryAllocationSize) >>,
         cleanup |-> << Free("deviceOutMat"), Free("deviceInMat"),
                        Free("deviceInVec") >>]

extendMatrix(dimension) ==
    LET matrixMemoryAllocationSize == (dimension + 1) * (dimension + 1)
    IN  [formals |-> <<"outputMatrix", "inputMatrix">>,
         body |-> <<
            HostStep("swap"),
            Malloc("deviceOutMat", matrixMemoryAllocationSize),
            Malloc("deviceInMat", matrixMemoryAllocationSize),
            H2D("deviceInMat", "inputMatrix", matrixMemoryAllocationSize),
            Launch("extendMat", <<"deviceOutMat", "deviceInMat">>,
                   dimension + 1, dimension + 1, dimension + 1),
            GetLastError,
            Synchronize,
            D2H("outputMatrix", "deviceOutMat", matrixMemoryAllocationSize) >>,
         cleanup |-> << Free("deviceOutMat"), Free("deviceInMat") >>]

\* for (int i = 0; i < dimension; i++) { resetBuffers; normalizeRows(i); pivotDown(i); }
forwardLoop(dimension) ==
    [n \in 1..(3 * dimension) |->
        LET i == (n - 1) \div 3
        IN  CASE ((n - 1) % 3) = 0 -> LaunchGJ("resetBuffers", dimension, i)
              [] ((n - 1) % 3) = 1 -> LaunchGJ("normalizeRows", dimension, i)
              [] OTHER -> LaunchGJ("pivotDown", dimension, i)]

\* the backward loop run down to the first row: i >= 0 in place of i > 0
backwardLoopToZero(dimension) ==
    [n \in 1..(2 * dimension) |->
        LET i == dimension - 1 - ((n - 1) \div 2)
        IN  IF ((n - 1) % 2) = 0
            THEN LaunchGJ("resetBuffers", dimension, i)
            ELSE LaunchGJ("pivotUp", dimension, i)]

\* for (int i = dimension - 1; i > 0; i--) { resetBuffers; pivotUp(i); }
backwardLoop(dimension) ==
    [n \in 1..(2 * (dimension - 1)) |->
        LET i == dimension - 1 - ((n - 1) \div 2)
        IN  IF ((n - 1) % 2) = 0
            THEN LaunchGJ("resetBuffers", dimension, i)
            ELSE LaunchGJ("pivotUp", dimension, i)]

invertMatrix(dimension) ==
    LET matrixMemoryAllocationSize == dimension * dimension
    IN  [formals |-> <<"outputMatrix", "inputMatrix">>,
         body |-> <<
            HostStep("newFlag"),
            Malloc("deviceBuffer", 2 * dimension),
            Malloc("deviceFlag", 1),
            Malloc("deviceInMat", matrixMemoryAllocationSize),
            Malloc("deviceIdenMat", matrixMemoryAllocationSize),
            H2D("deviceFlag", "flag", 1),
            H2D("deviceInMat", "inputMatrix", matrixMemoryAllocationSize),
            H2D("deviceIdenMat", "outputMatrix", matrixMemoryAllocationSize) >>
            \o forwardLoop(dimension) \o backwardLoop(dimension) \o <<
            GetLastError,
            Synchronize,
            D2H("outputMatrix", "deviceIdenMat", matrixMemoryAllocationSize),
            D2H("inputMatrix", "deviceInMat", matrixMemoryAllocationSize) >>,
         cleanup |-> << Free("deviceIdenMat"), Free("deviceInMat"),
                        Free("deviceBuffer"), Free("deviceFlag"),
                        HostStep("freeFlag") >>]

createIdentityMatrix(dimension) ==
    LET matrixMemoryAllocationSize == dimension * dimension
    IN  [formals |-> <<"matrix">>,
         body |-> <<
            Malloc("deviceMat", matrixMemoryAllocationSize),
            H2D("deviceMat", "matrix", matrixMemoryAllocationSize),
            Launch("createIdentMat", <<"deviceMat">>, dimension, dimension, dimension),
            GetLastError,
            D2H("matrix", "deviceMat", matrixMemoryAllocationSize) >>,
         cleanup |-> << Free("deviceMat") >>]

calculateWeightVector(dimension) ==
    LET matrixMemoryAllocationSize == dimension * dimension
        vectorMemoryAllocationSize == dimension
    IN  [formals |-> <<"outputVectorMatrix", "invertedCovarianceMatrix",
                       "covarianceVectorMatrix">>,
         body |-> <<
            Malloc("deviceOutMat", matrixMemoryAllocationSize),
            Malloc("deviceInvCovMat", matrixMemoryAllocationSize),
            Malloc("deviceCovVecMat", vectorMemoryAllocationSize),
            H2D("deviceInvCovMat", "invertedCovarianceMatrix", matrixMemoryAllocationSize),
            H2D("deviceCovVecMat", "covarianceVectorMatrix", vectorMemoryAllocationSize),
            Launch("multiplyMatrix",
                   <<"deviceOutMat", "deviceInvCovMat", "deviceCovVecMat">>,
                   dimension, dimension, dimension),
            GetLastError,
            Synchronize,
            D2H("outputVectorMatrix", "deviceOutMat", matrixMemoryAllocationSize) >>,
         cleanup |-> << Free("deviceOutMat"), Free("deviceInvCovMat"),
                        Free("deviceCovVecMat") >>]

\* multiplyMatrices copying its result into its second argument
multiplyMatricesIntoInput(dimension) ==
    LET matrixMemoryAllocationSize == dimension * dimension
    IN  [formals |-> <<"output", "inputMatrix">>,
         body |-> <<
            Malloc("deviceInputOne", matrixMemoryAllocationSize),
            Malloc("deviceInputTwo", matrixMemoryAllocationSize),
            Malloc("deviceOutput", matrixMemoryAllocationSize),
            H2D("deviceInputOne", "output", matrixMemoryAllocationSize),
            H2D("deviceInputTwo", "inputMatrix", matrixMemoryAllocationSize),
            Launch("multiplyMatrix",
                   <<"deviceOutput", "deviceInputOne", "deviceInputTwo">>,
                   dimension, dimension, dimension),
            GetLastError,
            D2H("inputMatrix", "deviceOutput", matrixMemoryAllocationSize) >>,
         cleanup |-> << Free("deviceInputOne"), Free("deviceInputTwo"),
                        Free("deviceOutput") >>]

multiplyMatrices(dimension) ==
    LET matrixMemoryAllocationSize == dimension * dimension
    IN  [formals |-> <<"output", "inputMatrix">>,
         body |-> <<
            Malloc("deviceInputOne", matrixMemoryAllocationSize),
            Malloc("deviceInputTwo", matrixMemoryAllocationSize),
            Malloc("deviceOutput", matrixMemoryAllocationSize),
            H2D("deviceInputOne", "output", matrixMemoryAllocationSize),
            H2D("deviceInputTwo", "inputMatrix", matrixMemoryAllocationSize),
            Launch("multiplyMatrix",
                   <<"deviceOutput", "deviceInputOne", "deviceInputTwo">>,
                   dimension, dimension, dimension),
            GetLastError,
            D2H("output", "deviceOutput", matrixMemoryAllocationSize) >>,
         cleanup |-> << Free("deviceInputOne"), Free("deviceInputTwo"),
                        Free("deviceOutput") >>]

HostOperation(name, dimension) ==
    CASE name = "calculateGaussianCorrelation" -> calculateGaussianCorrelation(dimension)
      [] name = "calculateDistanceBetweenMatrices" -> calculateDistanceBetweenMatrices(dimension)
      [] name = "calculateDistanceBetweenMatrixVector" ->
            calculateDistanceBetweenMatrixVector(dimension)
      [] name = "extendMatrix" -> extendMatrix(dimension)
      [] name = "invertMatrix" -> invertMatrix(dimension)
      [] name = "createIdentityMatrix" -> createIdentityMatrix(dimension)
      [] name = "calculateWeightVector" -> calculateWeightVector(dimension)
      [] name = "multiplyMatrices" -> multiplyMatrices(dimension)

DevicePointers ==
    {"deviceOutMat", "deviceInMat", "deviceInMatOne", "deviceInMatTwo", "deviceInVec",
     "deviceBuffer", "deviceFlag", "deviceIdenMat", "deviceMat", "deviceInvCovMat",
     "deviceCovVecMat", "deviceInputOne", "deviceInputTwo", "deviceOutput"}

\* double* deviceX = 0;
NullPointers == [v \in DevicePointers |-> [st |-> "null", data |-> <<>>]]

---------------------------------------------------------------------------
(* The callers: metamodelSetup, and the callers that run one host          *)
(* operation (or invertMatrix twice) on buffers of their own.              *)

Call(name, args, dimension) == St("call", name, "", dimension, args, 0, 0, 0)

metamodelSetup(dimension) ==
    [body |-> <<
        HostStep("mallocZero"),
        HostStep("cudaSetDevice"),
        Call("createIdentityMatrix", <<"identityMatrix">>, dimension),
        Call("calculateDistanceBetweenMatrices",
             <<"tempMatrixOne", "designSite", "designSiteValues">>, dimension),
        Call("calculateDistanceBetweenMatrixVector",
             <<"tempMatrixTwo", "designSite", "testSite">>, dimension),
        Call("calculateGaussianCorrelation",
             <<"tempMatrixOne", "tempMatrixOne">>, dimension),
        Call("calculateGaussianCorrelation",
             <<"tempMatrixTwo", "tempMatrixTwo">>, dimension),
        HostStep("clearTail"),
        Call("extendMatrix", <<"tempMatrixOne", "tempMatrixOne">>, dimension),
        HostStep("setAugmented"),
        Call("invertMatrix", <<"identityMatrix", "tempMatrixOne">>, dimension + 1),
        Call("calculateWeightVector",
             <<"tempMatrixTwo", "tempMatrixOne", "tempMatrixTwo">>, dimension + 1),
        Call("multiplyMatrices", <<"tempMatrixTwo", "designSiteValues">>, dimension + 1),
        HostStep("readOutput") >>,
     cleanup |-> << HostStep("freeHost") >>]

\* A caller of one host operation, on the buffers outputMatrix, inputMatrix
\* and inputMatrixTwo.
SingleCall(name, dimension) ==
    [body |-> << Call(name,
                      [i \in 1..Len(HostOperation(name, dimension).formals) |->
                          <<"outputMatrix", "inputMatrix", "inputMatrixTwo">>[i]],
                      dimension) >>,
     cleanup |-> <<>>]

\* invert(invert(M)): the second call inverts the first call's output, with
\* inputMatrixTwo as its paired buffer.
RoundTrip(dimension) ==
    [body |-> << Call("invertMatrix", <<"outputMatrix", "inputMatrix">>, dimension),
                 Call("invertMatrix", <<"inputMatrixTwo", "outputMatrix">>, dimension) >>,
     cleanup |-> <<>>]

Caller(name, dimension) ==
    CASE name = "metamodelSetup" -> metamodelSetup(dimension)
      [] name = "roundTrip" -> RoundTrip(dimension)
      [] OTHER -> SingleCall(name, dimension)

Flat(prog) == prog.body \o prog.cleanup \o << HostStep("return") >>
\* an error label placed one statement too late
ErrorLabelPastFirstFree(prog) == Len(prog.body) + 2
\* the statement "goto <Error label>" jumps to
ErrorLabel(prog) == Len(prog.body) + 1

HostBuffers ==
    {"designSite", "testSite", "designSiteValues",
     "identityMatrix", "tempMatrixOne", "tempMatrixTwo",
     "outputMatrix", "inputMatrix", "inputMatrixTwo", "flag"}

WorkBuffers == {"identityMatrix", "tempMatrixOne", "tempMatrixTwo"}

OperationNames ==
    {"calculateGaussianCorrelation", "calculateDistanceBetweenMatrices",
     "calculateDistanceBetweenMatrixVector", "extendMatrix", "invertMatrix",
     "createIdentityMatrix", "calculateWeightVector", "multiplyMatrices"}

\* the statements of every host operation and of every caller, laid out once
OperationTable ==
    [name \in OperationNames, dimension \in 1..(MaxDim + 1) |->
        LET prog == HostOperation(name, dimension)
        IN  [formals |-> prog.formals, steps |-> Flat(prog), error |-> ErrorLabel(prog)]]

CallerTable ==
    [name \in OperationNames \cup {"metamodelSetup", "roundTrip"},
     dimension \in 1..MaxDim |->
        LET prog == Caller(name, dimension)
        IN  [steps |-> Flat(prog), error |-> ErrorLabel(prog)]]

CallerProg == CallerTable[driver.name, driver.dimension]
\* the caller's current step
MCur == CallerProg.steps[mpc]
\* the running host operation and its current step
OpProg == OperationTable[MCur.x, MCur.n]
Cur == OpProg.steps[pc]

\* the host buffer a parameter of the running operation points to
Actual(formal) ==
    IF formal = "flag"
    THEN "flag"
    ELSE LET i == CHOOSE i \in 1..Len(OpProg.formals) : OpProg.formals[i] = formal
         IN  MCur.args[i]

InOp(kind) == pc > 0 /\ Cur.k = kind
InCaller(kind) == pc = 0 /\ mpc > 0 /\ MCur.k = kind

\* if (cudaStatus != cudaSuccess) goto <Error label>;
Proceed(ok) ==
    /\ status' = IF ok THEN "cudaSuccess" ELSE "cudaError"
    /\ pc' = IF ok THEN pc + 1 ELSE OpProg.error

---------------------------------------------------------------------------
(* The steps of a host operation.                                          *)

\* a fresh allocation holds whatever the memory held; the one bool cell
\* (deviceFlag) holds a byte that reads as true or as false
cudaMalloc ==
    /\ InOp("cudaMalloc")
    /\ \E ok \in BOOLEAN : \E seed \in (IF ok THEN JunkSeeds ELSE {0}) :
        /\ dev' = IF ok
                  THEN [dev EXCEPT ![Cur.x] =
                           [st |-> "live",
                            data |-> IF Cur.x = "deviceFlag"
                                     THEN [i \in {0} |-> JunkVal(seed, 0) # Zero]
                                     ELSE Buf(Cur.n, seed)]]
                  ELSE dev
        /\ Proceed(ok)
    /\ UNCHANGED <<driver, mpc, mstatus, host, hostSt, retval, launchErr, running,
                   ran, led, wcount, spinning>>

\* the values a copy of n elements reads from buffer f
CopyOut(f, n, seed) == [i \in 0..(n - 1) |-> Rd(f, i, seed)]
\* buffer f after a copy of src (n elements) has been written to it
CopyIn(f, src) == [i \in DOMAIN f |-> IF i \in DOMAIN src THEN src[i] ELSE f[i]]
\* the patterns a read of n elements of f can find past the end of f
SeedsFor(f, n) == IF n <= Size(f) THEN {0} ELSE JunkSeeds

cudaMemcpyHostToDevice ==
    /\ InOp("cudaMemcpyHostToDevice")
    /\ \E ok \in BOOLEAN :
       \E seed \in (IF ok THEN SeedsFor(host[Actual(Cur.y)], Cur.n) ELSE {0}) :
        /\ dev' = IF ok
                  THEN [dev EXCEPT ![Cur.x].data =
                            CopyIn(@, CopyOut(host[Actual(Cur.y)], Cur.n, seed))]
                  ELSE dev
        /\ Proceed(ok)
    /\ UNCHANGED <<driver, mpc, mstatus, host, hostSt, retval, launchErr, running,
                   ran, led, wcount, spinning>>

cudaMemcpyDeviceToHost ==
    /\ InOp("cudaMemcpyDeviceToHost")
    /\ \E ok \in BOOLEAN :
       \E seed \in (IF ok THEN SeedsFor(dev[Cur.x].data, Cur.n) ELSE {0}) :
        /\ host' = IF ok
                   THEN [host EXCEPT ![Actual(Cur.y)] =
                            CopyIn(@, CopyOut(dev[Cur.x].data, Cur.n, seed))]
                   ELSE host
        /\ Proceed(ok)
    /\ UNCHANGED <<driver, mpc, mstatus, hostSt, retval, dev, launchErr, running,
                   ran, led, wcount, spinning>>

\* what thread `index` of an elementwise kernel leaves in its output buffer
ThreadBody(step, out, ins, index, seed) ==
    CASE step.x = "calcDistanceBetMats" ->
            calcDistanceBetMats(out, ins[1], ins[2], step.n, index, seed)
      [] step.x = "calcDistanceBetMatVec" ->
            calcDistanceBetMatVec(out, ins[1], ins[2], step.n, index, seed)
      [] step.x = "calcGaussCorr" ->
            calcGaussCorr(out, ins[1], step.n, driver.variance, driver.a, driver.theta,
                          index, seed)
      [] step.x = "createIdentMat" -> createIdentMat(out, step.n, index)
      [] step.x = "extendMat" -> extendMat(out, ins[1], step.n, index, seed)
      [] step.x = "multiplyMatrix" ->
            multiplyMatrix(out, ins[1], ins[2], step.n, index, seed)

\* the output buffer after threads 0..n-1 have run (each thread reads and
\* writes the output buffer at its own index only)
RECURSIVE RunThreads(_, _, _, _, _)
RunThreads(step, out, ins, seed, n) ==
    IF n = 0
    THEN out
    ELSE ThreadBody(step, RunThreads(step, out, ins, seed, n - 1), ins, n - 1, seed)

\* whether thread t writes index i of its output buffer
Writes(step, out, ins, t, i, seed) ==
    \E m \in {R(-1), R(-2)} :
        ThreadBody(step, [j \in DOMAIN out |-> m], ins, t, seed)[i] # m

KernelInputs(step) == [i \in 1..(Len(step.args) - 1) |-> dev[step.args[i + 1]].data]

\* the patterns the kernel's reads can find past the end of its input buffers
KernelSeeds(step) ==
    IF \A i \in 2..Len(step.args) : Size(dev[step.args[i]].data) >= step.b * step.t
    THEN {0}
    ELSE JunkSeeds

\* kernel <<<b, t>>> (...) of an elementwise kernel.  A launch whose
\* configuration is refused runs no thread; cudaGetLastError reports it.
LaunchKernel ==
    /\ InOp("launch")
    /\ \E ok \in BOOLEAN : \E seed \in (IF ok THEN KernelSeeds(Cur) ELSE {0}) :
        LET out == dev[Cur.args[1]].data
            ins == KernelInputs(Cur)
            n == Cur.b * Cur.t
        IN  /\ dev' = IF ok
                      THEN [dev EXCEPT ![Cur.args[1]].data =
                                RunThreads(Cur, out, ins, seed, n)]
                      ELSE dev
            /\ wcount' = IF ok
                         THEN [i \in DOMAIN out |->
                                 Cardinality({t \in Threads(Cur.b, Cur.t) :
                                                Writes(Cur, out, ins, t, i, seed)})]
                         ELSE wcount
            /\ launchErr' = IF ok THEN "cudaSuccess" ELSE "cudaError"
    /\ pc' = pc + 1
    /\ UNCHANGED <<driver, mpc, mstatus, host, hostSt, retval, status, running,
                   ran, led, spinning>>

cudaGetLastError ==
    /\ InOp("cudaGetLastError")
    /\ Proceed(launchErr # "cudaError")
    /\ launchErr' = "cudaSuccess"
    /\ UNCHANGED <<driver, mpc, mstatus, host, hostSt, retval, dev, running, ran,
                   led, wcount, spinning>>

cudaDeviceSynchronize ==
    /\ InOp("cudaDeviceSynchronize")
    /\ \E ok \in BOOLEAN : Proceed(ok)
    /\ UNCHANGED <<driver, mpc, mstatus, host, hostSt, retval, dev, launchErr,
                   running, ran, led, wcount, spinning>>

\* cudaFree(v): nothing to do for a null pointer; the contents of a freed
\* buffer are gone
cudaFree ==
    /\ InOp("cudaFree")
    /\ dev' = [dev EXCEPT ![Cur.x] =
                  [st |-> CASE @.st = "null" -> "null"
                            [] @.st = "live" -> "freed"
                            [] OTHER -> "freedTwice",
                   data |-> <<>>]]
    /\ pc' = pc + 1
    /\ UNCHANGED <<driver, mpc, mstatus, host, hostSt, retval, status, launchErr,
                   running, ran, led, wcount, spinning>>

\* the loop at the head of extendMatrix, c iterations done:
\*   for (i = dimension; i >= 0; i--) for (j = dimension; j >= 0; j--)
\*     inputMatrix[i + j * (dimension + 1)] = inputMatrix[i + j * dimension];
RECURSIVE swapLoop(_, _, _, _)
swapLoop(inputMatrix, dimension, c, seed) ==
    IF c = 0
    THEN inputMatrix
    ELSE LET prev == swapLoop(inputMatrix, dimension, c - 1, seed)
             i == dimension - ((c - 1) \div (dimension + 1))
             j == dimension - ((c - 1) % (dimension + 1))
         IN  Wr(prev, i + j * (dimension + 1), Rd(prev, i + j * dimension, seed))

extendSwap ==
    /\ InOp("swap")
    /\ LET d == MCur.n
       IN  host' = [host EXCEPT ![Actual("inputMatrix")] =
                        swapLoop(@, d, (d + 1) * (d + 1), 0)]
    /\ pc' = pc + 1
    /\ UNCHANGED <<driver, mpc, mstatus, hostSt, retval, status, dev, launchErr,
                   running, ran, led, wcount, spinning>>

\* bool* flag = new bool; *flag = true;
newFlag ==
    /\ InOp("newFlag")
    /\ host' = [host EXCEPT !["flag"] = [i \in {0} |-> TRUE]]
    /\ hostSt' = [hostSt EXCEPT !["flag"] = "malloc"]
    /\ pc' = pc + 1
    /\ UNCHANGED <<driver, mpc, mstatus, retval, status, dev, launchErr, running,
                   ran, led, wcount, spinning>>

\* free(flag);
freeFlag ==
    /\ InOp("freeFlag")
    /\ hostSt' = [hostSt EXCEPT !["flag"] = "freed"]
    /\ pc' = pc + 1
    /\ UNCHANGED <<driver, mpc, mstatus, host, retval, status, dev, launchErr,
                   running, ran, led, wcount, spinning>>

\* a caller that ignores the returned status and goes on with its next step
ReturnStatusContinues ==
    /\ InOp("return")
    /\ pc' = 0
    /\ mstatus' = status
    /\ mpc' = mpc + 1
    /\ UNCHANGED <<driver, host, hostSt, retval, status, dev, launchErr, running,
                   ran, led, wcount, spinning>>

\* return cudaStatus;  and the caller's  if (cudaStatus != cudaSuccess) goto ...
ReturnStatus ==
    /\ InOp("return")
    /\ pc' = 0
    /\ mstatus' = status
    /\ mpc' = IF status = "cudaSuccess" THEN mpc + 1 ELSE CallerProg.error
    /\ UNCHANGED <<driver, host, hostSt, retval, status, dev, launchErr, running,
                   ran, led, wcount, spinning>>

---------------------------------------------------------------------------
(* The Gauss-Jordan launches of invertMatrix, one thread per step.  A      *)
(* launch starts when the one before it has completed (stream order).      *)
(* All launches of a call have the same configuration, so the first one    *)
(* decides whether it is accepted.                                         *)

GJThreads == Threads(Cur.b, Cur.t)

\* The threads of resetBuffers, and those of normalizeRows and pivotUp once
\* the flag is set, read cells that no thread of the launch writes and write
\* cells of their own, so the order in which they run cannot change what
\* they compute.  The standalone calls run them in every order; the launches
\* inside metamodelSetup run them in index order.
Schedule(waiting) ==
    IF driver.name = "metamodelSetup"
    THEN {index \in waiting : \A other \in waiting : index <= other}
    ELSE waiting

\* A thread of pivotDown reads and writes cells of its own row, and reads the
\* pivot row, which no thread writes: threads of one row race with each
\* other, threads of different rows do not.  The standalone calls run the
\* threads in every order; the launches inside metamodelSetup run the rows
\* one after the other and the threads of a row in every order.
ScheduleRows(waiting, dimension) ==
    IF driver.name = "metamodelSetup"
    THEN {index \in waiting :
            \A other \in waiting : (index % dimension) <= (other % dimension)}
    ELSE waiting
InKernel(kernel) == pc > 0 /\ Cur.k = "launchGJ" /\ Cur.x = kernel /\ running
Flag == dev["deviceFlag"].data[0]
SetFlag(d, b) == [d EXCEPT !["deviceFlag"].data = [i \in {0} |-> b]]

LaunchGaussJordan ==
    /\ InOp("launchGJ")
    /\ ~running
    /\ \E ok \in (IF launchErr = "none" THEN BOOLEAN ELSE {launchErr = "cudaSuccess"}) :
        /\ running' = ok
        /\ launchErr' = IF ok THEN "cudaSuccess" ELSE "cudaError"
        /\ pc' = IF ok THEN pc ELSE pc + 1
    /\ ran' = {}
    /\ led' = FALSE
    /\ UNCHANGED <<driver, mpc, mstatus, host, hostSt, retval, status, dev, wcount, spinning>>

ResetBuffersThread ==
    /\ InKernel("resetBuffers")
    /\ \E index \in Schedule(GJThreads \ ran) :
        LET r == resetBuffers(dev["deviceBuffer"].data, Flag, Cur.n, index)
        IN  /\ ran' = ran \cup {index}
            /\ dev' = SetFlag([dev EXCEPT !["deviceBuffer"].data = r.vals], r.flag)
    /\ UNCHANGED <<driver, mpc, mstatus, host, hostSt, retval, pc, status, launchErr,
                   running, led, wcount, spinning>>

\* if (index == targetCol * (dimension + 1)) { copy the column; *flag = true; }
NormalizeRowsLeader ==
    /\ InKernel("normalizeRows")
    /\ ~led
    /\ led' = TRUE
    /\ \E index \in GJThreads \ ran :
        /\ IsLeader(Cur.n, Cur.p, index)
        /\ dev' = SetFlag([dev EXCEPT !["deviceBuffer"].data =
                              normalizeRowsCopy(dev["deviceInMat"].data, @,
                                                Cur.n, Cur.p, index)], TRUE)
    /\ UNCHANGED <<driver, mpc, mstatus, host, hostSt, retval, pc, status, launchErr,
                   running, ran, wcount, spinning>>

\* a division step that reports a zero normalising value through the status
NormalizeRowsThreadReporting ==
    /\ InKernel("normalizeRows")
    /\ \E index \in Schedule(GJThreads \ (ran \cup spinning)) :
        /\ IsLeader(Cur.n, Cur.p, index) => led
        /\ Flag # FALSE
        /\ LET r == normalizeRows(dev["deviceIdenMat"].data, dev["deviceInMat"].data,
                                  dev["deviceBuffer"].data, Cur.n, Cur.p, index)
           IN  dev' = [dev EXCEPT !["deviceIdenMat"].data = r.idenMat,
                                  !["deviceInMat"].data = r.inMat]
        /\ status' = IF dev["deviceBuffer"].data[index % Cur.n] = Zero
                     THEN "cudaError"
                     ELSE status
        /\ ran' = ran \cup {index}
    /\ UNCHANGED <<driver, mpc, mstatus, host, hostSt, retval, pc, launchErr,
                   running, led, wcount, spinning>>

\* while (*flag == false) {}  and the division that follows it
NormalizeRowsThread ==
    /\ InKernel("normalizeRows")
    /\ \E index \in Schedule(GJThreads \ (ran \cup spinning)) :
        /\ IsLeader(Cur.n, Cur.p, index) => led
        /\ Flag # FALSE
        /\ LET r == normalizeRows(dev["deviceIdenMat"].data, dev["deviceInMat"].data,
                                  dev["deviceBuffer"].data, Cur.n, Cur.p, index)
           IN  dev' = [dev EXCEPT !["deviceIdenMat"].data = r.idenMat,
                                  !["deviceInMat"].data = r.inMat]
        /\ ran' = ran \cup {index}
    /\ UNCHANGED <<driver, mpc, mstatus, host, hostSt, retval, pc, status, launchErr,
                   running, led, wcount, spinning>>

PivotDownThread ==
    /\ InKernel("pivotDown")
    /\ \E index \in ScheduleRows(GJThreads \ ran, Cur.n) :
        /\ LET r == pivotDown(dev["deviceIdenMat"].data, dev["deviceInMat"].data,
                              Cur.n, Cur.p, index)
           IN  dev' = [dev EXCEPT !["deviceIdenMat"].data = r.idenMat,
                                  !["deviceInMat"].data = r.inMat]
        /\ ran' = ran \cup {index}
    /\ UNCHANGED <<driver, mpc, mstatus, host, hostSt, retval, pc, status, launchErr,
                   running, led, wcount, spinning>>

\* if (index == targetRow * (dimension + 1)) { copy the column; *flag = true; }
PivotUpLeader ==
    /\ InKernel("pivotUp")
    /\ ~led
    /\ led' = TRUE
    /\ \E index \in GJThreads \ ran :
        /\ IsLeader(Cur.n, Cur.p, index)
        /\ dev' = SetFlag([dev EXCEPT !["deviceBuffer"].data =
                              pivotUpCopy(dev["deviceInMat"].data, @,
                                          Cur.n, Cur.p, index)], TRUE)
    /\ UNCHANGED <<driver, mpc, mstatus, host, hostSt, retval, pc, status, launchErr,
                   running, ran, wcount, spinning>>

\* while (*flag == false) {}  and the subtraction that follows it
PivotUpThread ==
    /\ InKernel("pivotUp")
    /\ \E index \in Schedule(GJThreads \ (ran \cup spinning)) :
        /\ IsLeader(Cur.n, Cur.p, index) => led
        /\ Flag # FALSE
        /\ LET r == pivotUp(dev["deviceIdenMat"].data, dev["deviceInMat"].data,
                            dev["deviceBuffer"].data, Cur.n, Cur.p, index)
           IN  dev' = [dev EXCEPT !["deviceIdenMat"].data = r.idenMat,
                                  !["deviceInMat"].data = r.inMat]
        /\ ran' = ran \cup {index}
    /\ UNCHANGED <<driver, mpc, mstatus, host, hostSt, retval, pc, status, launchErr,
                   running, led, wcount, spinning>>

\* flag is a plain bool* that the leader writes while the other threads read
\* it in  while (*flag == false) {} : a data race.  The outcomes of the build
\* are the three below, next to the one in which the loop waits as written
\* (NormalizeRowsThread, PivotUpThread).
\*
\* The flag is read once, before the leader has set it, and the loop runs on
\* the value read: the thread never leaves it.
SpinForever ==
    /\ InKernel("normalizeRows") \/ InKernel("pivotUp")
    /\ Flag = FALSE
    /\ \E index \in GJThreads \ (ran \cup spinning) :
        /\ ~IsLeader(Cur.n, Cur.p, index)
        /\ spinning' = spinning \cup {index}
    /\ UNCHANGED <<driver, mpc, mstatus, host, hostSt, retval, pc, status, dev,
                   launchErr, running, ran, led, wcount>>

\* The loop, which has no side effect, does not hold the thread back: it
\* reads firstVals and divides before the leader has copied the column.
NormalizeRowsEarly ==
    /\ InKernel("normalizeRows")
    /\ Flag = FALSE
    /\ \E index \in GJThreads \ (ran \cup spinning) :
        /\ ~IsLeader(Cur.n, Cur.p, index)
        /\ LET r == normalizeRows(dev["deviceIdenMat"].data, dev["deviceInMat"].data,
                                  dev["deviceBuffer"].data, Cur.n, Cur.p, index)
           IN  dev' = [dev EXCEPT !["deviceIdenMat"].data = r.idenMat,
                                  !["deviceInMat"].data = r.inMat]
        /\ ran' = ran \cup {index}
    /\ UNCHANGED <<driver, mpc, mstatus, host, hostSt, retval, pc, status, launchErr,
                   running, led, wcount, spinning>>

\* The same for pivotUp: the thread reads lastVals and subtracts before the
\* leader has copied the column.
PivotUpEarly ==
    /\ InKernel("pivotUp")
    /\ Flag = FALSE
    /\ \E index \in GJThreads \ (ran \cup spinning) :
        /\ ~IsLeader(Cur.n, Cur.p, index)
        /\ LET r == pivotUp(dev["deviceIdenMat"].data, dev["deviceInMat"].data,
                            dev["deviceBuffer"].data, Cur.n, Cur.p, index)
           IN  dev' = [dev EXCEPT !["deviceIdenMat"].data = r.idenMat,
                                  !["deviceInMat"].data = r.inMat]
        /\ ran' = ran \cup {index}
    /\ UNCHANGED <<driver, mpc, mstatus, host, hostSt, retval, pc, status, launchErr,
                   running, led, wcount, spinning>>

\* every thread of the launch has returned: the next launch may start
KernelComplete ==
    /\ pc > 0 /\ Cur.k = "launchGJ" /\ running
    /\ ran = GJThreads
    /\ running' = FALSE
    /\ ran' = {}
    /\ led' = FALSE
    /\ pc' = pc + 1
    /\ UNCHANGED <<driver, mpc, mstatus, host, hostSt, retval, status, dev,
                   launchErr, wcount, spinning>>

---------------------------------------------------------------------------
(* The steps of the callers.                                               *)

\* cudaStatus = <host operation>(...);
CallOperation ==
    /\ InCaller("call")
    /\ pc' = 1
    /\ status' = "cudaSuccess"
    /\ dev' = NullPointers
    /\ launchErr' = "none"
    /\ UNCHANGED <<driver, mpc, mstatus, host, hostSt, retval, running, ran, led,
                   wcount, spinning>>

\* the three malloc calls of metamodelSetup and the loop that zeroes them
mallocZero ==
    /\ InCaller("mallocZero")
    /\ LET n == (driver.dimension + 1) * (driver.dimension + 1)
       IN  host' = [b \in HostBuffers |->
                      IF b \in WorkBuffers THEN [i \in 0..(n - 1) |-> Zero] ELSE host[b]]
    /\ hostSt' = [b \in HostBuffers |-> IF b \in WorkBuffers THEN "malloc" ELSE hostSt[b]]
    /\ mpc' = mpc + 1
    /\ UNCHANGED <<driver, mstatus, retval, pc, status, dev, launchErr, running, ran,
                   led, wcount, spinning>>

cudaSetDevice ==
    /\ InCaller("cudaSetDevice")
    /\ \E ok \in BOOLEAN :
        /\ mstatus' = IF ok THEN "cudaSuccess" ELSE "cudaError"
        /\ mpc' = IF ok THEN mpc + 1 ELSE CallerProg.error
    /\ UNCHANGED <<driver, host, hostSt, retval, pc, status, dev, launchErr, running,
                   ran, led, wcount, spinning>>

\* for (int i = dimension; i < pow(dimension + 1, 2); i++) tempMatrixTwo[i] = 0;
clearTail ==
    /\ InCaller("clearTail")
    /\ host' = [host EXCEPT !["tempMatrixTwo"] =
                   [i \in DOMAIN @ |-> IF i >= driver.dimension THEN Zero ELSE @[i]]]
    /\ mpc' = mpc + 1
    /\ UNCHANGED <<driver, mstatus, hostSt, retval, pc, status, dev, launchErr,
                   running, ran, led, wcount, spinning>>

\* tempMatrixTwo[dimension + 0*dimension] = 1;
setAugmented ==
    /\ InCaller("setAugmented")
    /\ host' = [host EXCEPT !["tempMatrixTwo"] =
                   Wr(@, driver.dimension + 0 * driver.dimension, One)]
    /\ mpc' = mpc + 1
    /\ UNCHANGED <<driver, mstatus, hostSt, retval, pc, status, dev, launchErr,
                   running, ran, led, wcount, spinning>>

\* outputValue = tempMatrixTwo[0];
readOutput ==
    /\ InCaller("readOutput")
    /\ retval' = host["tempMatrixTwo"][0]
    /\ mpc' = mpc + 1
    /\ UNCHANGED <<driver, mstatus, host, hostSt, pc, status, dev, launchErr,
                   running, ran, led, wcount, spinning>>

\* SetupError: free(identityMatrix); free(tempMatrixOne); free(tempMatrixTwo);
freeHost ==
    /\ InCaller("freeHost")
    /\ hostSt' = [b \in HostBuffers |->
                    IF b \in WorkBuffers
                    THEN (IF hostSt[b] = "malloc" THEN "freed" ELSE "freedTwice")
                    ELSE hostSt[b]]
    /\ mpc' = mpc + 1
    /\ UNCHANGED <<driver, mstatus, host, retval, pc, status, dev, launchErr,
                   running, ran, led, wcount, spinning>>

\* the caller returns
Return ==
    /\ InCaller("return")
    /\ mpc' = 0
    /\ UNCHANGED <<driver, mstatus, host, hostSt, retval, pc, status, dev, launchErr,
                   running, ran, led, wcount, spinning>>

Returned == mpc = 0
Succeeded == Returned /\ mstatus = "cudaSuccess"

---------------------------------------------------------------------------
(* Initial states: a caller, its arguments and its buffers.                *)

NoBuffers == [b \in HostBuffers |-> <<>>]

InitWith(sc) ==
    /\ driver = sc
    /\ host = [b \in HostBuffers |-> IF b \in DOMAIN sc.bufs THEN sc.bufs[b] ELSE <<>>]
    /\ hostSt = [b \in HostBuffers |-> IF b \in DOMAIN sc.bufs THEN "caller" ELSE "none"]
    /\ mpc = 1
    /\ mstatus = "cudaSuccess"
    /\ retval = Zero
    /\ pc = 0
    /\ status = "cudaSuccess"
    /\ dev = NullPointers
    /\ launchErr = "none"
    /\ running = FALSE
    /\ ran = {}
    /\ led = FALSE
    /\ wcount = <<>>
    /\ spinning = {}

\* a call of one host operation; the three scalars matter to
\* calculateGaussianCorrelation and metamodelSetup only
Scenario(name, dimension, bufs) ==
    [name |-> name, dimension |-> dimension, theta |-> One, variance |-> One,
     a |-> Zero, bufs |-> bufs]

\* the n x n identity, column-major
IdentityMatrix(n) ==
    [i \in 0..(n * n - 1) |-> IF (i % n) = (i \div n) THEN One ELSE Zero]

IdentityCalls ==
    { Scenario("createIdentityMatrix", n, [outputMatrix |-> Buf(n * n, seed)]) :
        n \in 1..MaxDim, seed \in JunkSeeds }

InitIdentity == \E sc \in IdentityCalls : InitWith(sc)

NextLaunch ==
    \/ CallOperation
    \/ cudaMalloc
    \/ cudaMemcpyHostToDevice
    \/ LaunchKernel
    \/ cudaGetLastError
    \/ cudaMemcpyDeviceToHost
    \/ cudaFree
    \/ ReturnStatus
    \/ Return

SpecIdentity == InitIdentity /\ [][NextLaunch]_vars

\* C9: after a successful createIdentityMatrix(matrix, n) the first n*n
\* entries of matrix are the identity: entry idx is 1 exactly when
\* idx mod (n+1) = 0, these are exactly the diagonal positions i + i*n, every
\* other entry is 0, and every entry was written by exactly one thread.
C9_IdentityConstructed ==
    (Succeeded /\ driver.name = "createIdentityMatrix") =>
        LET n == driver.dimension
            m == host["outputMatrix"]
        IN  \A idx \in 0..(n * n - 1) :
                /\ m[idx] = (IF (idx % (n + 1)) = 0 THEN One ELSE Zero)
                /\ ((idx % (n + 1)) = 0) <=> (\E i \in 0..(n - 1) : idx = i + i * n)
                /\ m[idx] = IdentityMatrix(n)[idx]
                /\ wcount[idx] = 1

C9_Witness ==
    /\ Succeeded
    /\ driver.name = "createIdentityMatrix"
    /\ driver.dimension = 3
    /\ driver.bufs["outputMatrix"] # host["outputMatrix"]

---------------------------------------------------------------------------
(* extendMatrix on its own.                                                *)

\* an n x n matrix held in a buffer of (n+1)*(n+1) doubles
Padded(A, n, seed) ==
    [i \in 0..((n + 1) * (n + 1) - 1) |-> IF i < n * n THEN A[i] ELSE JunkVal(seed, i)]

ZeroMatrix(n) == [i \in 0..(n * n - 1) |-> Zero]
\* the n x n matrix whose entries are 1, 2, 3, ... in storage order
CountingMatrix(n) == [i \in 0..(n * n - 1) |-> R(i + 1)]

ExtendCalls ==
    UNION { { Scenario("extendMatrix", n,
                       [outputMatrix |-> Buf((n + 1) * (n + 1), seed),
                        inputMatrix |-> Padded(A, n, seed)]) :
                seed \in JunkSeeds, A \in {ZeroMatrix(n), CountingMatrix(n)} } :
            n \in 1..MaxDim }

InitExtend == \E sc \in ExtendCalls : InitWith(sc)

NextExtend ==
    \/ CallOperation
    \/ extendSwap
    \/ cudaMalloc
    \/ cudaMemcpyHostToDevice
    \/ LaunchKernel
    \/ cudaGetLastError
    \/ cudaDeviceSynchronize
    \/ cudaMemcpyDeviceToHost
    \/ cudaFree
    \/ ReturnStatus
    \/ Return

SpecExtend == InitExtend /\ [][NextExtend]_vars

\* the bottom row and the right column of the (n+1) x (n+1) matrix out are 1
\* and its bottom-right corner is 0
Bordered(out, n) ==
    /\ \A j \in 0..(n - 1) : out[n + j * (n + 1)] = One
    /\ \A i \in 0..(n - 1) : out[i + n * (n + 1)] = One
    /\ out[n + n * (n + 1)] = Zero

\* C6: a successful extendMatrix(out, A, n) leaves A in the top-left n x n
\* block of out, element for element, with the bottom row and right column 1
\* and the bottom-right corner 0.
C6_BlockCopied ==
    (Succeeded /\ driver.name = "extendMatrix") =>
        LET n == driver.dimension
            A == driver.bufs["inputMatrix"]
            out == host["outputMatrix"]
        IN  /\ \A i, j \in 0..(n - 1) : out[i + j * (n + 1)] = A[i + j * n]
            /\ Bordered(out, n)

\* C7: extending the all-zero n x n matrix gives a zero top-left block, a
\* bottom row and right column of 1, and a bottom-right corner of 0.
C7_ZeroExtended ==
    (/\ Succeeded
     /\ driver.name = "extendMatrix"
     /\ \A i \in 0..(driver.dimension * driver.dimension - 1) :
            driver.bufs["inputMatrix"][i] = Zero) =>
        LET n == driver.dimension
            out == host["outputMatrix"]
        IN  /\ \A i, j \in 0..(n - 1) : out[i + j * (n + 1)] = Zero
            /\ Bordered(out, n)

C7_Witness ==
    /\ Succeeded
    /\ driver.name = "extendMatrix"
    /\ driver.dimension = 3
    /\ \A i \in 0..8 : driver.bufs["inputMatrix"][i] = Zero
    /\ driver.bufs["inputMatrix"][9] # Zero
    /\ driver.bufs["outputMatrix"][0] # Zero

---------------------------------------------------------------------------
(* multiplyMatrices on its own: M times the identity, in either position. *)

MultiplyCalls ==
    UNION { { Scenario("multiplyMatrices", n, [outputMatrix |-> p[1], inputMatrix |-> p[2]]) :
                p \in { <<CountingMatrix(n), IdentityMatrix(n)>>,
                        <<IdentityMatrix(n), CountingMatrix(n)>>,
                        <<ZeroMatrix(n), IdentityMatrix(n)>> } } :
            n \in 1..MaxDim }

InitMultiply == \E sc \in MultiplyCalls : InitWith(sc)

SpecMultiply == InitMultiply /\ [][NextLaunch]_vars

\* C8: a successful multiplyMatrices call with the identity as one operand
\* leaves the other operand M in the output, whatever the freshly allocated
\* device buffers held.
C8_IdentityProduct ==
    (Succeeded /\ driver.name = "multiplyMatrices") =>
        LET n == driver.dimension
            first == driver.bufs["outputMatrix"]
            second == driver.bufs["inputMatrix"]
        IN  /\ (second = IdentityMatrix(n)) => (host["outputMatrix"] = first)
            /\ (first = IdentityMatrix(n)) => (host["outputMatrix"] = second)

---------------------------------------------------------------------------
(* invertMatrix on its own.                                                *)

RECURSIVE MatMulAcc(_, _, _, _, _, _)
MatMulAcc(A, B, n, row, col, k) ==
    IF k = 0
    THEN Zero
    ELSE RAdd(MatMulAcc(A, B, n, row, col, k - 1),
              RMul(A[row + (k - 1) * n], B[(k - 1) + col * n]))

\* the product of two n x n matrices stored column by column
MatMul(A, B, n) ==
    [i \in 0..(n * n - 1) |-> MatMulAcc(A, B, n, i % n, i \div n, n)]

Without(s, k) == [i \in 1..(Len(s) - 1) |-> IF i < k THEN s[i] ELSE s[i + 1]]

RECURSIVE Det(_, _, _, _)
RECURSIVE DetSum(_, _, _, _, _)
\* the cofactor expansion along the first of the rows, up to column number k
DetSum(M, n, rows, cols, k) ==
    IF k = 0
    THEN Zero
    ELSE LET term == RMul(M[rows[1] + cols[k] * n],
                          Det(M, n, Tail(rows), Without(cols, k)))
         IN  RAdd(DetSum(M, n, rows, cols, k - 1),
                  IF (k % 2) = 1 THEN term ELSE RNeg(term))

Det(M, n, rows, cols) ==
    IF rows = <<>> THEN One ELSE DetSum(M, n, rows, cols, Len(cols))

Invertible(M, n) ==
    LET all == [i \in 1..n |-> i - 1] IN Det(M, n, all, all) # Zero

\* no pivot of the elimination without row swaps is zero: every leading
\* principal minor of M is non-zero
PivotsNonZero(M, n) ==
    \A k \in 1..n : LET lead == [i \in 1..k |-> i - 1] IN Det(M, n, lead, lead) # Zero

\* the n x n matrices that are the identity outside their leading 2 x 2
\* block B, for every B with the given entries
Matrices(n, entries) ==
    { [i \in 0..(n * n - 1) |->
          IF (i % n) < 2 /\ (i \div n) < 2
          THEN B[(i % n) + 2 * (i \div n)]
          ELSE IdentityMatrix(n)[i]] :
        B \in [0..3 -> entries] }

InvertCalls ==
    UNION { { Scenario("invertMatrix", n,
                       [outputMatrix |-> IdentityMatrix(n), inputMatrix |-> M]) :
                M \in Matrices(n, {R(e) : e \in 0..MaxEntry}) } :
            n \in 1..MaxInvDim }

InitInvert == \E sc \in InvertCalls : InitWith(sc)

NextInvert ==
    \/ CallOperation
    \/ SpinForever
    \/ NormalizeRowsEarly
    \/ PivotUpEarly
    \/ newFlag
    \/ cudaMalloc
    \/ cudaMemcpyHostToDevice
    \/ LaunchGaussJordan
    \/ ResetBuffersThread
    \/ NormalizeRowsLeader
    \/ NormalizeRowsThread
    \/ PivotDownThread
    \/ PivotUpLeader
    \/ PivotUpThread
    \/ KernelComplete
    \/ cudaGetLastError
    \/ cudaDeviceSynchronize
    \/ cudaMemcpyDeviceToHost
    \/ cudaFree
    \/ freeFlag
    \/ ReturnStatus
    \/ Return

SpecInvert == InitInvert /\ [][NextInvert]_vars

\* C1: when no pivot of M is zero, the paired buffer is the identity and
\* every CUDA call succeeds, invertMatrix returns with the working matrix
\* equal to the identity and the paired matrix equal to the inverse of M
\* (paired x M = identity), whatever the order in which the threads of each
\* launch ran.
C1_InverseComputed ==
    (/\ Succeeded
     /\ driver.name = "invertMatrix"
     /\ driver.bufs["outputMatrix"] = IdentityMatrix(driver.dimension)
     /\ PivotsNonZero(driver.bufs["inputMatrix"], driver.dimension)) =>
        LET n == driver.dimension
        IN  /\ host["inputMatrix"] = IdentityMatrix(n)
            /\ MatMul(host["outputMatrix"], driver.bufs["inputMatrix"], n) = IdentityMatrix(n)

InvertIdentityCalls ==
    { Scenario("invertMatrix", n,
               [outputMatrix |-> IdentityMatrix(n), inputMatrix |-> IdentityMatrix(n)]) :
        n \in 1..MaxInvDim }

InitInvertIdentity == \E sc \in InvertIdentityCalls : InitWith(sc)

SpecInvertIdentity == InitInvertIdentity /\ [][NextInvert]_vars

\* C2: invertMatrix applied to the n x n identity with the n x n identity as
\* paired buffer returns success with both the paired (output) matrix and
\* the working (input) matrix equal to the identity, whatever the order in
\* which the threads of each launch ran.
C2_IdentityInverted ==
    (/\ Succeeded
     /\ driver.name = "invertMatrix"
     /\ driver.bufs["inputMatrix"] = IdentityMatrix(driver.dimension)
     /\ driver.bufs["outputMatrix"] = IdentityMatrix(driver.dimension)) =>
        /\ host["outputMatrix"] = IdentityMatrix(driver.dimension)
        /\ host["inputMatrix"] = IdentityMatrix(driver.dimension)

C2_Witness ==
    /\ Succeeded
    /\ driver.name = "invertMatrix"
    /\ driver.dimension = MaxInvDim
    /\ driver.bufs["inputMatrix"] = IdentityMatrix(MaxInvDim)
    /\ driver.bufs["outputMatrix"] = IdentityMatrix(MaxInvDim)
    /\ dev["deviceIdenMat"].st = "freed"

---------------------------------------------------------------------------
(* invert(invert(M)): two invertMatrix calls in a row.                     *)

RoundTripCalls ==
    UNION { { Scenario("roundTrip", n,
                       [outputMatrix |-> IdentityMatrix(n), inputMatrix |-> M,
                        inputMatrixTwo |-> IdentityMatrix(n)]) :
                M \in { X \in Matrices(n, {Zero, One}) : Invertible(X, n) } } :
            n \in 1..MaxInvDim }

InitRoundTrip == \E sc \in RoundTripCalls : InitWith(sc)

SpecRoundTrip == InitRoundTrip /\ [][NextInvert]_vars

\* C3: for an invertible M, invertMatrix on M with an identity paired buffer
\* followed by invertMatrix on the result with a fresh identity paired buffer
\* leaves M in the second paired buffer.
C3_RoundTrip ==
    (/\ Succeeded
     /\ driver.name = "roundTrip"
     /\ Invertible(driver.bufs["inputMatrix"], driver.dimension)) =>
        host["inputMatrixTwo"] = driver.bufs["inputMatrix"]

---------------------------------------------------------------------------
(* metamodelSetup: the whole estimate.                                     *)

Vec(seq) == [i \in 0..(Len(seq) - 1) |-> seq[i + 1]]

\* one design site, which is also the test site
InterpolationCalls ==
    { [name |-> "metamodelSetup", dimension |-> 1, theta |-> One,
       variance |-> R(var), a |-> Zero,
       bufs |-> [designSite |-> Vec(<<R(s)>>), testSite |-> Vec(<<R(s)>>),
                 designSiteValues |-> Vec(<<R(v)>>)]] :
        s \in {1}, v \in 0..MaxEntry, var \in 1..MaxEntry }

\* two design sites (the rows of designSite) at t - e and t + e around the
\* test site t, both with the value v in the first column of designSiteValues
SymmetricCalls ==
    { [name |-> "metamodelSetup", dimension |-> 2, theta |-> One,
       variance |-> One, a |-> Zero,
       bufs |-> [designSite |-> Vec(<<R(1 - e), R(1 + e), R(1), R(1)>>),
                 testSite |-> Vec(<<R(1), R(1)>>),
                 designSiteValues |-> Vec(<<R(v), R(v), Zero, Zero>>)]] :
        e \in {1}, v \in {1, 2} }

InitSetup == \E sc \in InterpolationCalls \cup SymmetricCalls : InitWith(sc)

NextSetup ==
    \/ mallocZero
    \/ cudaSetDevice
    \/ clearTail
    \/ setAugmented
    \/ readOutput
    \/ freeHost
    \/ CallOperation
    \/ extendSwap
    \/ newFlag
    \/ cudaMalloc
    \/ cudaMemcpyHostToDevice
    \/ LaunchKernel
    \/ LaunchGaussJordan
    \/ ResetBuffersThread
    \/ NormalizeRowsLeader
    \/ NormalizeRowsThread
    \/ PivotDownThread
    \/ PivotUpLeader
    \/ PivotUpThread
    \/ KernelComplete
    \/ cudaGetLastError
    \/ cudaDeviceSynchronize
    \/ cudaMemcpyDeviceToHost
    \/ cudaFree
    \/ freeFlag
    \/ ReturnStatus
    \/ Return

SpecSetup == InitSetup /\ [][NextSetup]_vars

\* C4: with dimension = 1 and the test site equal to the design site, a
\* successful metamodelSetup returns exactly the design value v.
C4_Interpolation ==
    (/\ Succeeded
     /\ driver.name = "metamodelSetup"
     /\ driver.dimension = 1
     /\ driver.bufs["testSite"][0] = driver.bufs["designSite"][0]) =>
        retval = driver.bufs["designSiteValues"][0]

\* C5: with two design sites placed symmetrically about the test site and
\* carrying the same design value v, a successful metamodelSetup returns v.
C5_Symmetry ==
    (/\ Succeeded
     /\ driver.name = "metamodelSetup"
     /\ driver.dimension = 2
     /\ \A j \in 0..1 :
            RAdd(driver.bufs["designSite"][0 + j * 2], driver.bufs["designSite"][1 + j * 2])
                = RMul(R(2), driver.bufs["testSite"][j])
     /\ driver.bufs["designSiteValues"][0] = driver.bufs["designSiteValues"][1]) =>
        retval = driver.bufs["designSiteValues"][0]

---------------------------------------------------------------------------
(* Every host operation on its own, and metamodelSetup, with every CUDA    *)
(* call free to fail.                                                      *)

ElementwiseCalls ==
    { Scenario(name, n,
               [outputMatrix |-> Buf(n * n, 1), inputMatrix |-> CountingMatrix(n),
                inputMatrixTwo |-> IdentityMatrix(n)]) :
        name \in {"calculateGaussianCorrelation", "calculateDistanceBetweenMatrices",
                  "calculateDistanceBetweenMatrixVector", "calculateWeightVector"},
        n \in 1..MaxInvDim }

OperationCalls ==
    ElementwiseCalls \cup IdentityCalls \cup ExtendCalls \cup MultiplyCalls
        \cup InvertIdentityCalls
        \cup {sc \in InterpolationCalls :
                sc.variance = One}

InitOperations == \E sc \in OperationCalls : InitWith(sc)

SpecOperations == InitOperations /\ [][NextSetup]_vars

\* C10: when a host operation has returned, whichever CUDA call failed (or
\* none), every device buffer it allocated has been freed exactly once; and
\* when metamodelSetup has returned, on success or on failure, its three host
\* work buffers have been freed.
C10_NoLeak ==
    /\ (pc = 0) => \A v \in DevicePointers : dev[v].st \in {"null", "freed"}
    /\ (Returned /\ driver.name = "metamodelSetup") =>
            \A b \in WorkBuffers : hostSt[b] = "freed"

C10_Witness ==
    /\ Returned
    /\ driver.name = "metamodelSetup"
    /\ mstatus = "cudaError"
    /\ dev["deviceBuffer"].st = "freed"
    /\ dev["deviceFlag"].st = "freed"
    /\ dev["deviceInMat"].st = "null"
    /\ hostSt["tempMatrixOne"] = "freed"

\* C11: when a host operation returns a failure status, every host buffer
\* the caller passed to it holds exactly the values it held before the call.
C11_FailureLeavesHostUnchanged ==
    (/\ Returned
     /\ driver.name \in OperationNames
     /\ mstatus # "cudaSuccess") =>
        \A b \in DOMAIN driver.bufs : host[b] = driver.bufs[b]

---------------------------------------------------------------------------
(* The error paths of metamodelSetup.                                      *)

\* once a step has failed the caller is at SetupError or has returned, no
\* operation is running and outputValue is still 0.0
AfterFailure ==
    (driver.name = "metamodelSetup" /\ mstatus # "cudaSuccess") =>
        /\ pc = 0
        /\ mpc = 0 \/ mpc >= CallerProg.error
        /\ retval = Zero

\* outputValue is assigned only by the read of tempMatrixTwo[0], which is
\* reached with the success status
OutputReadOnSuccess ==
    (driver.name = "metamodelSetup" /\ retval' # retval) =>
        /\ InCaller("readOutput")
        /\ mstatus = "cudaSuccess"
        /\ mpc = CallerProg.error - 1

\* C12: metamodelSetup short-circuits on the first failing step: after a
\* failure of cudaSetDevice or of a pipeline operation no later operation is
\* invoked and the function returns exactly 0.0; the estimate is read from the
\* result buffer only when every step has succeeded.
C12_ShortCircuit == [](AfterFailure) /\ [][OutputReadOnSuccess]_vars

C12_Witness ==
    /\ driver.name = "metamodelSetup"
    /\ Returned
    /\ mstatus # "cudaSuccess"
    /\ retval = Zero
    /\ host["tempMatrixOne"] # [i \in DOMAIN host["tempMatrixOne"] |-> Zero]

\* C13: the value metamodelSetup returns on failure (0.0) is distinguishable
\* from every value it returns on success: no run in which every step
\* succeeded returns the value that the failing runs return.
C13_FailureDistinguishable ==
    (driver.name = "metamodelSetup" /\ Succeeded) => retval # Zero

---------------------------------------------------------------------------
(* The last two steps of metamodelSetup.                                   *)

\* the device-to-host copy that ends the named operation of metamodelSetup
\* succeeds in this step
ResultCopied(name) ==
    /\ driver.name = "metamodelSetup"
    /\ pc > 0
    /\ MCur.x = name
    /\ Cur.k = "cudaMemcpyDeviceToHost"
    /\ status' = "cudaSuccess"

\* C14: the weight vector that calculateWeightVector leaves in tempMatrixTwo
\* is the product of the inverse of the extended covariance matrix, which
\* invertMatrix left in its paired buffer identityMatrix, and the extended
\* covariance vector, which tempMatrixTwo held before the copy.
C14_WeightVector ==
    [][ResultCopied("calculateWeightVector") =>
        \A i \in 0..driver.dimension :
            host'["tempMatrixTwo"][i] =
                MatMulAcc(host["identityMatrix"], host["tempMatrixTwo"],
                          driver.dimension + 1, i, 0, driver.dimension + 1)]_vars

\* C15: the estimate, the value multiplyMatrices leaves in tempMatrixTwo[0]
\* and metamodelSetup returns, is the sum over i < dimension of w[i] * v[i],
\* where w is the weight vector tempMatrixTwo held before the copy and v the
\* first column of designSiteValues; the Lagrange entry w[dimension] is left
\* out.
C15_Estimate ==
    [][ResultCopied("multiplyMatrices") =>
        host'["tempMatrixTwo"][0] =
            MatMulAcc(host["tempMatrixTwo"], host["designSiteValues"],
                      1, 0, 0, driver.dimension)]_vars

---------------------------------------------------------------------------
(* The buffers of a kernel launch.                                         *)

\* the device pointers that the launch at the current step passes as matrices
LaunchBuffers ==
    IF InOp("launch")
    THEN {Cur.args[i] : i \in 1..Len(Cur.args)}
    ELSE IF InOp("launchGJ") THEN {"deviceInMat", "deviceIdenMat"} ELSE {}

\* C16: at every kernel launch of a host operation every matrix buffer
\* argument is a live allocation of exactly d * d doubles, d the dimension the
\* kernel is launched with, so that no thread reads or writes outside it.
C16_LaunchBuffersSized ==
    \A v \in LaunchBuffers :
        /\ dev[v].st = "live"
        /\ Size(dev[v].data) = Cur.n * Cur.n

---------------------------------------------------------------------------
(* The covariance matrix of metamodelSetup.                                *)

\* calculateGaussianCorrelation(tempMatrixOne, tempMatrixOne, ...) has
\* returned success: tempMatrixOne holds the covariance matrix
CovarianceBuilt ==
    /\ driver.name = "metamodelSetup"
    /\ pc = 0
    /\ mpc = 7
    /\ mstatus = "cudaSuccess"

\* C17: the covariance matrix metamodelSetup builds from the squared
\* distances and the Gaussian correlation is symmetric: entry (i, j) equals
\* entry (j, i) for every input.
C17_CovarianceSymmetric ==
    CovarianceBuilt =>
        \A i, j \in 0..(driver.dimension - 1) :
            host["tempMatrixOne"][i + j * driver.dimension] =
                host["tempMatrixOne"][j + i * driver.dimension]

---------------------------------------------------------------------------
(* The caller's buffers.                                                   *)

CallerOwned == {"designSite", "testSite", "designSiteValues"}

\* C18: metamodelSetup never writes the caller's designSite, testSite and
\* designSiteValues: at every point of every path, and so at the return, each
\* holds what it held at the call.
C18_CallerBuffersKept ==
    driver.name = "metamodelSetup" =>
        \A b \in CallerOwned : host[b] = driver.bufs[b]

C18_Witness ==
    /\ driver.name = "metamodelSetup"
    /\ Succeeded
    /\ retval # Zero
    /\ \A b \in CallerOwned : host[b] = driver.bufs[b]

---------------------------------------------------------------------------
(* invertMatrix on inputs it cannot invert.                                *)

\* the n x n matrix of ones: singular for n > 1, with a zero pivot after the
\* first elimination
OnesMatrix(n) == [i \in 0..(n * n - 1) |-> One]

\* singular inputs, and paired buffers that are not the identity
InvalidCalls ==
    UNION { { Scenario("invertMatrix", n, [outputMatrix |-> P, inputMatrix |-> M]) :
                P \in {IdentityMatrix(n), CountingMatrix(n)},
                M \in {ZeroMatrix(n), OnesMatrix(n)} } :
            n \in 1..MaxInvDim }

InitInvalid == \E sc \in InvalidCalls : InitWith(sc)

SpecInvalid == InitInvalid /\ [][NextInvert]_vars

\* the calls whose result invertMatrix assigns to cudaStatus
CudaCalls ==
    {"cudaMalloc", "cudaMemcpyHostToDevice", "cudaMemcpyDeviceToHost",
     "cudaGetLastError", "cudaDeviceSynchronize"}

\* cudaStatus is assigned only from the result of a CUDA call, the launch
\* error only by a launch or its query, and the status the caller sees is
\* cudaStatus
StatusFromCuda ==
    /\ (pc > 0 /\ status' # status) => Cur.k \in CudaCalls
    /\ (pc > 0 /\ launchErr' # launchErr) => Cur.k \in {"launchGJ", "cudaGetLastError"}
    /\ mstatus' # mstatus => (InOp("return") /\ mstatus' = status)

\* C19: invertMatrix never reports numerical invalidity: the status it returns
\* is decided by the outcomes of its CUDA calls alone, so a call with a
\* singular input (zero pivot, division skipped) or with a paired buffer that
\* is not the identity returns success when its CUDA calls succeed.
C19_StatusFromCudaOnly == [][StatusFromCuda]_vars

C19_Witness ==
    /\ driver.name = "invertMatrix"
    /\ driver.dimension > 1
    /\ driver.bufs["inputMatrix"] = OnesMatrix(driver.dimension)
    /\ driver.bufs["outputMatrix"] # IdentityMatrix(driver.dimension)
    /\ Succeeded

---------------------------------------------------------------------------
(* The threads of a pivotDown launch.                                      *)

\* Row r's entry in the pivot column at the start of the pivotDown launch.
\* The leader of the normalizeRows launch before it copied the column into
\* firstVals, each row with a non-zero copy was divided by it, and nothing
\* writes the buffer until the next resetBuffers: the entry is non-zero at
\* the start of the launch exactly when firstVals[r] is.
NonZeroAtLaunch(r) == dev["deviceBuffer"].data[r] # Zero

\* the link above, at the start of every pivotDown launch
PivotColumnRecorded ==
    (InKernel("pivotDown") /\ ran = {}) =>
        \A r \in (Cur.p + 1)..(Cur.n - 1) :
            NonZeroAtLaunch(r) <=> dev["deviceInMat"].data[r + Cur.p * Cur.n] # Zero

\* one thread of a pivotDown launch runs in this step
PivotDownStep == InKernel("pivotDown") /\ ran' \ ran # {}

\* the thread that runs in this step subtracts the pivot row's entry of its
\* column from its element, in both matrices
Subtracted ==
    LET index == CHOOSE t \in ran' \ ran : TRUE
        temp == index - ((index % Cur.n) - Cur.p)
        idenMat == dev["deviceIdenMat"].data
        inMat == dev["deviceInMat"].data
    IN  ((index % Cur.n) > Cur.p /\ NonZeroAtLaunch(index % Cur.n)) =>
            /\ dev'["deviceIdenMat"].data[index] = RSub(idenMat[index], idenMat[temp])
            /\ dev'["deviceInMat"].data[index] = RSub(inMat[index], inMat[temp])

\* C20: the result of a pivotDown launch for pivot p does not depend on the
\* order in which its threads run: for every row r > p whose entry in the
\* pivot column is non-zero when the launch starts, every element of row r in
\* both matrices has the pivot row's entry of the same column subtracted,
\* whichever threads have run before.
C20_PivotDownAnyOrder == [][PivotDownStep => Subtracted]_vars

---------------------------------------------------------------------------
(* The forward loop of invertMatrix.                                       *)

\* for (i = 0; i < dimension; i++) { ... } of invertMatrix has ended and its
\* launches were accepted: the next step is the first one after the loop
ForwardLoopDone ==
    /\ driver.name = "invertMatrix"
    /\ pc = 8 + 3 * driver.dimension + 1
    /\ ~running
    /\ launchErr = "cudaSuccess"

\* zero below the diagonal, one on it
UnitUpperTriangular(M, n) ==
    \A r, c \in 0..(n - 1) :
        /\ r = c => M[r + c * n] = One
        /\ r > c => M[r + c * n] = Zero

\* C21: after the forward loop of invertMatrix on an input whose pivots are
\* all non-zero the working matrix is upper-triangular with ones on the
\* diagonal, and the paired matrix is the identity with the same row
\* operations applied (paired x input = working), whatever the order of the
\* threads within each launch.
C21_ForwardPass ==
    (/\ ForwardLoopDone
     /\ driver.bufs["outputMatrix"] = IdentityMatrix(driver.dimension)
     /\ PivotsNonZero(driver.bufs["inputMatrix"], driver.dimension)) =>
        /\ UnitUpperTriangular(dev["deviceInMat"].data, driver.dimension)
        /\ MatMul(dev["deviceIdenMat"].data, driver.bufs["inputMatrix"],
                  driver.dimension) = dev["deviceInMat"].data

---------------------------------------------------------------------------
(* The busy-wait of normalizeRows and pivotUp.                             *)

InFlagKernel == InKernel("normalizeRows") \/ InKernel("pivotUp")

\* a thread of the launch passes its busy-wait, reads the scratch buffer and
\* updates its elements of the two matrices in this step
ThreadPastWait == InFlagKernel /\ ran' \ ran # {}

Leaders == {index \in GJThreads : IsLeader(Cur.n, Cur.p, index)}

\* the position of a launch: every step of a thread changes it
progress == <<pc, running, ran, led>>

\* The dimension blocks of dimension threads of a launch are all resident and
\* the device keeps scheduling each of them: a thread that can take its next
\* step does so eventually, and a launch whose threads have all returned
\* completes.
ThreadsFair ==
    /\ WF_progress(ResetBuffersThread)
    /\ WF_progress(NormalizeRowsLeader)
    /\ WF_progress(NormalizeRowsThread)
    /\ WF_progress(PivotDownThread)
    /\ WF_progress(PivotUpLeader)
    /\ WF_progress(PivotUpThread)
    /\ WF_progress(KernelComplete)

SpecSpinWait == InitInvertIdentity /\ [][NextInvert]_vars /\ ThreadsFair

---------------------------------------------------------------------------
(* resetBuffers.                                                           *)

\* every thread of a launch of resetBuffers has returned
ResetDone == InKernel("resetBuffers") /\ ran = GJThreads

\* the scratch buffer of 2 * dimension doubles holds zeros only
ScratchZero ==
    \A i \in 0..(2 * Cur.n - 1) : dev["deviceBuffer"].data[i] = Zero

\* a step of resetBuffers that changes *flag is a step of the thread 0
FlagWrittenByThreadZero ==
    (InKernel("resetBuffers") /\ Flag' # Flag) => (ran' \ ran = {0})

\* C24: when a launch of resetBuffers has completed, for every dimension
\* >= 1, each of the 2 * dimension entries of the scratch buffer is zero and
\* the flag is false; only the thread with index 0 writes the flag.
C24_ResetBuffers ==
    /\ [](ResetDone => (ScratchZero /\ Flag = FALSE))
    /\ [][FlagWrittenByThreadZero]_vars

---------------------------------------------------------------------------
(* The effect of one launch of normalizeRows and of pivotUp.  Each element *)
(* of the two matrices is written by the thread of its own index only, and *)
(* that thread runs once in a launch: what a launch does to an element is   *)
(* what the step of its thread does to it.                                  *)

\* M[r, p] of the working matrix as the launch for pivot p found it: no
\* thread changes column p before the leader has copied it (a thread that
\* runs earlier reads the zero resetBuffers wrote and leaves its element),
\* and the leader's copy stays in the buffer until the next resetBuffers
PivotColumnAtLaunch(r) ==
    IF led
    THEN dev["deviceBuffer"].data[r]
    ELSE dev["deviceInMat"].data[r + Cur.p * Cur.n]

\* the thread of the running launch that runs in this step
Stepping == CHOOSE t \in ran' \ ran : TRUE

\* the step leaves every element but the one of its thread as it was
OthersKept ==
    \A name \in {"deviceIdenMat", "deviceInMat"} :
        \A i \in DOMAIN dev[name].data :
            i # Stepping => dev'[name].data[i] = dev[name].data[i]

\* one thread of a normalizeRows launch runs in this step
NormalizeRowsStep == InKernel("normalizeRows") /\ ran' \ ran # {}

\* the element of the thread is divided by the pivot-column entry of its row
\* when the row is at or below the pivot and that entry is non-zero, and is
\* left alone otherwise
Divided ==
    LET index == Stepping
        v == PivotColumnAtLaunch(index % Cur.n)
    IN  /\ OthersKept
        /\ \A name \in {"deviceIdenMat", "deviceInMat"} :
            dev'[name].data[index] =
                IF (index % Cur.n) >= Cur.p /\ v # Zero
                THEN RDiv(dev[name].data[index], v)
                ELSE dev[name].data[index]

PivotUpStep == InKernel("pivotUp") /\ ran' \ ran # {}

\* the element (r, c) of the thread has M[r, p] times the entry (p, c)
\* subtracted when r < p, and is left alone otherwise
Eliminated ==
    LET index == Stepping
        r == index % Cur.n
        src == index + Cur.p - r
    IN  /\ OthersKept
        /\ \A name \in {"deviceIdenMat", "deviceInMat"} :
            dev'[name].data[index] =
                IF r < Cur.p
                THEN RSub(dev[name].data[index],
                          RMul(PivotColumnAtLaunch(r), dev[name].data[src]))
                ELSE dev[name].data[index]

---------------------------------------------------------------------------
(* The order of the launches of invertMatrix.                              *)

\* the number of launches invertMatrix has issued before the step it is at
LaunchesBefore ==
    Cardinality({k \in 1..(pc - 1) : OpProg.steps[k].k = "launchGJ"})

\* the k-th launch (from 0) of invertMatrix, as a pair <<kernel, pivot>>:
\* resetBuffers, normalizeRows(p), pivotDown(p) for p = 0 .. dimension - 1,
\* then resetBuffers, pivotUp(p) for p = dimension - 1 down to 1
KernelSequence(dimension, k) ==
    IF k < 3 * dimension
    THEN <<CASE (k % 3) = 0 -> "resetBuffers"
             [] (k % 3) = 1 -> "normalizeRows"
             [] OTHER -> "pivotDown",
           k \div 3>>
    ELSE <<IF ((k - 3 * dimension) % 2) = 0 THEN "resetBuffers" ELSE "pivotUp",
           dimension - 1 - ((k - 3 * dimension) \div 2)>>

\* invertMatrix is at one of its launches
AtLaunch == driver.name = "invertMatrix" /\ pc > 0 /\ Cur.k = "launchGJ"

\* the launch invertMatrix is at is the one the two loops prescribe, with
\* dimension blocks of dimension threads
InSequence ==
    AtLaunch =>
        /\ LaunchesBefore < 3 * driver.dimension + 2 * (driver.dimension - 1)
        /\ <<Cur.x, Cur.p>> = KernelSequence(driver.dimension, LaunchesBefore)
        /\ Cur.x = "pivotUp" => Cur.p >= 1
        /\ Cur.b = driver.dimension /\ Cur.t = driver.dimension

\* a launch of normalizeRows or pivotUp none of whose threads has run yet
FlagKernelStarts == InFlagKernel /\ ran = {} /\ spinning = {} /\ ~led

\* a launch that waits on the flag follows a launch of resetBuffers and finds
\* the flag false
ResetFirst ==
    FlagKernelStarts =>
        /\ OpProg.steps[pc - 1].x = "resetBuffers"
        /\ Flag = FALSE

\* a launch ends when each of its threads has returned, and the next launch
\* of the sequence starts only after that
OneAtATime ==
    /\ (AtLaunch /\ running /\ ~running') => (ran = GJThreads /\ pc' = pc + 1)
    /\ (AtLaunch /\ pc' # pc) => ~running'

\* C27: invertMatrix launches resetBuffers, normalizeRows(p), pivotDown(p)
\* for p = 0 .. dimension - 1 and then resetBuffers, pivotUp(p) for
\* p = dimension - 1 down to 1, never pivotUp(0); each launch completes
\* before the next one starts, and every launch of normalizeRows and of
\* pivotUp comes right after a resetBuffers, so that it finds the flag false.
C27_KernelOrder ==
    /\ [](InSequence /\ ResetFirst)
    /\ [][OneAtATime]_vars

\* the last launch of the sequence, pivotUp(1), with every thread returned
C27_Witness ==
    /\ driver.dimension = MaxInvDim
    /\ InKernel("pivotUp")
    /\ Cur.p = 1
    /\ ran = GJThreads

---------------------------------------------------------------------------
(* The elementwise kernels, thread against thread.                         *)

\* the cells of the output buffer that thread t of the launch at hand writes
WrittenBy(t, seed) ==
    {i \in DOMAIN dev[Cur.args[1]].data :
        Writes(Cur, dev[Cur.args[1]].data, KernelInputs(Cur), t, i, seed)}

\* what thread t leaves in its output cell does not change with the content
\* of the cells the other threads write: it reads none of them
ReadsOwnCellOnly(t, seed) ==
    LET out == dev[Cur.args[1]].data
        ins == KernelInputs(Cur)
    IN  \A i \in DOMAIN out \ {t} : \A m \in {R(-1), R(-2)} :
            Rd(ThreadBody(Cur, Wr(out, i, m), ins, t, seed), t, seed)
                = Rd(ThreadBody(Cur, out, ins, t, seed), t, seed)

\* a host operation is about to launch an elementwise kernel
AtElementwiseLaunch == InOp("launch")

\* the launch at hand: the buffer the kernel writes is none of the buffers it
\* reads, each thread writes the cell of its own index only and reads no
\* cell that another thread writes
ThreadsDisjoint ==
    AtElementwiseLaunch =>
        /\ \A k \in 2..Len(Cur.args) : Cur.args[k] # Cur.args[1]
        /\ \A seed \in KernelSeeds(Cur) : \A t \in Threads(Cur.b, Cur.t) :
            /\ WrittenBy(t, seed) \subseteq {t}
            /\ ReadsOwnCellOnly(t, seed)

\* an elementwise kernel has been launched and has run
ElementwiseLaunched ==
    /\ pc > 1
    /\ OpProg.steps[pc - 1].k = "launch"
    /\ launchErr = "cudaSuccess"

---------------------------------------------------------------------------
(* The paired buffer of the inversion in metamodelSetup.                   *)

\* metamodelSetup is at  invertMatrix(identityMatrix, tempMatrixOne,
\* dimension + 1) : every call before it returned success
AtInvertCall ==
    /\ driver.name = "metamodelSetup"
    /\ InCaller("call")
    /\ MCur.x = "invertMatrix"
    /\ mstatus = "cudaSuccess"

\* C29: when metamodelSetup calls invertMatrix(identityMatrix, tempMatrixOne,
\* dimension + 1), the paired buffer identityMatrix, read as a column-major
\* (dimension + 1) x (dimension + 1) matrix, is the identity of that size.
C29_PairedIsIdentity ==
    AtInvertCall => host["identityMatrix"] = IdentityMatrix(driver.dimension + 1)

---------------------------------------------------------------------------
(* What the device memory of a fresh allocation does to the host output.   *)

\* the launch a host operation has just made
LastLaunch == OpProg.steps[pc - 1]

\* the number of doubles of device buffer v that the operation copies back to
\* the host after the step it is at
CopiedBack(v) ==
    LET copies == {k \in pc..Len(OpProg.steps) :
                      /\ OpProg.steps[k].k = "cudaMemcpyDeviceToHost"
                      /\ OpProg.steps[k].x = v}
    IN  IF copies = {} THEN 0 ELSE OpProg.steps[CHOOSE k \in copies : TRUE].n

\* what the launch leaves in its output buffer when the memory it found in
\* the allocations (the output buffer before the launch, the cells past the
\* end of its inputs) is zero: a function of what the host copied in
FromInputsAlone ==
    LET out == dev[LastLaunch.args[1]].data
    IN  RunThreads(LastLaunch, [i \in DOMAIN out |-> Zero], KernelInputs(LastLaunch),
                   0, LastLaunch.b * LastLaunch.t)

\* a thread of the launch wrote cell i of the output buffer
KernelWrote(i) == i \in DOMAIN wcount /\ wcount[i] >= 1

\* C30: a host operation is deterministic in its inputs: every entry it
\* copies back to the host was written by a kernel, with a value that does
\* not depend on what the device memory held when it was allocated (two runs
\* with equal inputs and different initial device memory copy back the same
\* entries).
C30_OutputFromInputsAlone ==
    ElementwiseLaunched =>
        \A i \in 0..(CopiedBack(LastLaunch.args[1]) - 1) :
            /\ KernelWrote(i)
            /\ dev[LastLaunch.args[1]].data[i] = FromInputsAlone[i]

=============================================================================
